---- MODULE Spec2Model ----
(***************************************************************************)
(* Korjournal: the persistence and ingestion core.                         *)
(*   lib/database.ts   the store: getDatabase (open, validate, recover),   *)
(*                     insertTrip, updateTrip, setSetting, getSetting      *)
(*   import route      POST: read the remap setting, parse, insertTrip per *)
(*                     record, tally imported / duplicates / errors        *)
(* One sqlite connection (the module variable db) is shared by every       *)
(* request; each awaited statement is one step, so requests interleave at  *)
(* statement granularity.                                                  *)
(***************************************************************************)
EXTENDS Integers, Sequences, FiniteSets, TLC

(* ------------------------------ bounds --------------------------------- *)
\* concurrent requests of the interleaving specification
NTasks == 2
\* rows of an uploaded file
MaxRows == 2
\* operations one request slot runs one after the other (sequential spec)
MaxOps == 3
\* last value of the millisecond clock
MaxClock == 2

(* ------------------------------ values --------------------------------- *)
\* a JavaScript number: an integer or NaN (parseInt / parseFloat of text
\* that does not start with a number)
Num(v) == [nan |-> FALSE, v |-> v]
NaN == [nan |-> TRUE, v |-> 0]

NoValue == "<none>"
Undefined == "<undefined>"
RemapKey == "mapOkategoriseratToPrivat"
Keys == {RemapKey, "exportDriver"}
\* the settings route takes every value but undefined: the empty string too
Values == {"true", "false", ""}

\* a parsed row of an upload: the fields the store's constraints read (the
\* distance in tenths of a kilometre)
Row(c, d, os, oe) ==
  [category |-> c, startDate |-> d, odometerStart |-> os, odometerEnd |-> oe,
   distance |-> Num(50), notes |-> ""]

RowInputs ==
  { Row("Okategoriserat", "2024-01-01", Num(100), Num(150)),
    Row("Arbete", "2024-01-02", Num(150), Num(170)),
    Row("Arbete", "2024-01-02", NaN, Num(170)) }

SeqsUpTo(S, n) == UNION { [1..k -> S] : k \in 1..n }
Uploads == SeqsUpTo(RowInputs, MaxRows)

\* createTables: the columns of the UNIQUE constraint
KeyWithCategory(r) == <<r.startDate, r.odometerStart, r.odometerEnd, r.category>>
NaturalKey(r) == <<r.startDate, r.odometerStart, r.odometerEnd>>

(* --------------------------- sqlite errors ----------------------------- *)
\* an error object: code, errno and the known fragments its message holds
Err(code, errno, msg) == [code |-> code, errno |-> errno, msg |-> msg]
NoErr == Err("", 0, {})
ErrUnique == Err("SQLITE_CONSTRAINT", 19, {"SQLITE_CONSTRAINT", "UNIQUE constraint failed"})
ErrNotNull == Err("SQLITE_CONSTRAINT", 19, {"SQLITE_CONSTRAINT", "NOT NULL constraint failed"})
ErrNestedBegin == Err("SQLITE_ERROR", 1, {"cannot start a transaction within a transaction"})
ErrNoTransaction == Err("SQLITE_ERROR", 1, {"no transaction is active"})
\* failures of the storage engine itself
ErrCorrupt == Err("SQLITE_CORRUPT", 11, {"SQLITE_CORRUPT", "database disk image is malformed"})
ErrNotADb == Err("SQLITE_NOTADB", 26, {"SQLITE_NOTADB", "file is not a database"})
ErrMalformedMsg == Err(Undefined, 0, {"database disk image is malformed"})
ErrNotADbMsg == Err(Undefined, 0, {"file is not a database"})
ErrCantOpen == Err("SQLITE_CANTOPEN", 14, {"SQLITE_CANTOPEN", "unable to open database file"})
ErrBusy == Err("SQLITE_BUSY", 5, {"SQLITE_BUSY", "database is locked"})
StorageFaults == {ErrCorrupt, ErrNotADb, ErrMalformedMsg, ErrNotADbMsg, ErrCantOpen, ErrBusy}

\* database.ts isSQLiteCorruptionError
CorruptionCodes == {"SQLITE_CORRUPT", "SQLITE_NOTADB", "SQLITE_CANTOPEN"}
CodeOnlyCorruptionCheck(e) == e.code \in CorruptionCodes
isSQLiteCorruptionError(e) ==
  \E code \in CorruptionCodes :
     \/ e.code = code
     \/ code \in e.msg
     \/ "database disk image is malformed" \in e.msg
     \/ "file is not a database" \in e.msg

\* database.ts insertTrip, the catch block after ROLLBACK: what the call does
\* with the error of the failed statement
InsertFailure(e) ==
  IF isSQLiteCorruptionError(e) THEN "corruption"
  ELSE IF e.code = "SQLITE_CONSTRAINT_UNIQUE" \/ e.code = "SQLITE_CONSTRAINT" \/ e.errno = 19
    THEN "duplicate"
  ELSE "error"

(* ----------------------------- the schema ------------------------------ *)
Tables == {"trips", "settings"}
NoSettings == [k \in Keys |-> NoValue]
\* a database file: PRAGMA integrity_check answers ok, the tables it holds
EmptyDb == [exists |-> TRUE, ok |-> TRUE, tables |-> {}, trips |-> {}, settings |-> NoSettings]
NoFile == [EmptyDb EXCEPT !.exists = FALSE]
SchemaDb == [EmptyDb EXCEPT !.tables = Tables]

Ids(trips) == { r.id : r \in trips }
MaxId(trips) == IF trips = {} THEN 0 ELSE CHOOSE m \in Ids(trips) : \A i \in Ids(trips) : i <= m

\* createTables: the columns are NOT NULL (sqlite binds NaN as NULL)
NotNullViolated(r) == r.odometerStart.nan \/ r.odometerEnd.nan \/ r.distance.nan
\* createTables: UNIQUE(startDate, odometerStart, odometerEnd)
UniqueViolated(trips, r) == \E s \in trips : NaturalKey(s) = NaturalKey(r)

\* INSERT INTO trips: the error, or the table with the new row
InsertWithoutUnique(trips, r, by) ==
  IF NotNullViolated(r) THEN [err |-> ErrNotNull, trips |-> trips, lastID |-> 0]
  ELSE [err |-> NoErr, lastID |-> MaxId(trips) + 1,
        trips |-> trips \cup {[id |-> MaxId(trips) + 1, category |-> r.category,
                   startDate |-> r.startDate, odometerStart |-> r.odometerStart,
                   odometerEnd |-> r.odometerEnd, distance |-> r.distance,
                   notes |-> r.notes, by |-> by]}]
SqlInsertTrip(trips, r, by) ==
  IF NotNullViolated(r) THEN [err |-> ErrNotNull, trips |-> trips, lastID |-> 0]
  ELSE IF UniqueViolated(trips, r) THEN [err |-> ErrUnique, trips |-> trips, lastID |-> 0]
  ELSE [err |-> NoErr, lastID |-> MaxId(trips) + 1,
        trips |-> trips \cup {[id |-> MaxId(trips) + 1, category |-> r.category,
                   startDate |-> r.startDate, odometerStart |-> r.odometerStart,
                   odometerEnd |-> r.odometerEnd, distance |-> r.distance,
                   notes |-> r.notes, by |-> by]}]

\* UPDATE trips SET ... WHERE id = ?
NoUpdate == [category |-> Undefined, notes |-> Undefined]
UpdateInputs ==
  { NoUpdate, [NoUpdate EXCEPT !.category = "Arbete"], [NoUpdate EXCEPT !.notes = "edited"] }
Updated(r, upd) ==
  [r EXCEPT !.category = IF upd.category # Undefined THEN upd.category ELSE @,
            !.notes = IF upd.notes # Undefined THEN upd.notes ELSE @]
UpdateEveryRow(trips, id, upd) == { Updated(r, upd) : r \in trips }
SqlUpdateTrip(trips, id, upd) ==
  { IF r.id = id THEN Updated(r, upd) ELSE r : r \in trips }

\* the import route, lines 82-86: the remap flag applied to the rows
\* (csvParser.ts lines 50-56)
Remapped(r, flag) ==
  IF flag /\ r.category = "Okategoriserat" THEN [r EXCEPT !.category = "Privat"] ELSE r
ParsedRecords(rows, flag) == [i \in 1..Len(rows) |-> Remapped(rows[i], flag)]

(* ------------------------------ state ---------------------------------- *)
NoIo == [op |-> "", args |-> <<>>, ret |-> <<>>]
DbPath == <<"trips.db", 0>>
BackupPath(now) == <<"trips.corrupted", now>>
Paths == {DbPath} \cup { BackupPath(n) : n \in 1..MaxClock }
NoWork == [trips |-> {}, settings |-> NoSettings]
Tasks == 1..NTasks

VARIABLES
  files,      \* the data directory: path -> database file, or NoFile
  db,         \* database.ts line 25: "null" or "open" (a handle on DbPath)
  txn,        \* the connection is inside BEGIN ... COMMIT/ROLLBACK
  work,       \* the uncommitted trips and settings of the open transaction
  clock,      \* Date.now()
  gd,         \* the running getDatabase initialization
  task,       \* the requests: position, arguments, locals, results
  stolen,     \* history: calls whose row a ROLLBACK of another call removed
  backedUp,   \* history: every rename to a backup path, with the bytes moved
  prevImport, \* history: the last finished import of the sequential slot
  io,         \* a call of a pure operation: its arguments and what it returned
  calls       \* getDatabase calls that start before a handle exists

vars == <<files, db, txn, work, clock, gd, task, stolen, backedUp, prevImport, io, calls>>

\* what is committed in the file, and what a statement of the connection sees
Committed == [trips |-> files[DbPath].trips, settings |-> files[DbPath].settings]
View == IF txn THEN work ELSE Committed

\* a statement's write: into the open transaction, or committed at once
\* (autocommit) when the connection has none
Write(v) ==
  IF txn THEN work' = v /\ UNCHANGED files
  ELSE /\ files' = [files EXCEPT ![DbPath].trips = v.trips, ![DbPath].settings = v.settings]
       /\ UNCHANGED work

\* database.ts line 25 as the callers of getDatabase see it: db is 0 (null)
\* or the number of the handle it holds; opened counts the handles opened,
\* inits the initializations begun, closed the handles closed; each caller
\* has its position and the handle it received
NCallers == 2
Callers == 1..NCallers
NoCalls ==
  [db |-> 0, opened |-> 0, inits |-> 0, closed |-> {},
   of |-> [c \in Callers |-> [pc |-> "idle", got |-> 0]]]

IdleTask ==
  [pc |-> "idle", kind |-> "", n |-> 0, file |-> <<>>, remap |-> FALSE, recs |-> <<>>,
   i |-> 0, imported |-> 0, duplicates |-> 0, errors |-> 0, lastID |-> 0, err |-> NoErr,
   fault |-> FALSE, out |-> <<>>, key |-> "", value |-> "", id |-> 0, upd |-> NoUpdate,
   ret |-> "", pre |-> {}]

Ready == db = "open" /\ gd.pc = "ready"

(* ----------------------- the import route, POST ------------------------ *)
\* lines 7-83: the upload is read and decoded, then getSetting is awaited
StartImport(t, f) ==
  /\ Ready /\ task[t].pc = "idle"
  /\ task' = [task EXCEPT ![t] = [IdleTask EXCEPT !.pc = "getSetting", !.kind = "import",
                                     !.n = task[t].n + 1, !.file = f]]
  /\ UNCHANGED <<files, db, txn, work, clock, gd, stolen, backedUp, prevImport, io, calls>>

\* database.ts getSetting: result?.value || null (an empty string is falsy);
\* an error is caught and is null
GetSettingValue(settings, key) ==
  IF settings[key] = NoValue \/ settings[key] = "" THEN "null" ELSE settings[key]

\* the response of lines 106-116, or of the outer catch of lines 117-128
ImportResponse(thrown, tr) ==
  IF thrown = "corruption" THEN "isCorruption"
  ELSE IF thrown = "error" THEN "failed"
  ELSE "completed"

\* lines 83-92: the flag is read, the text parsed, the loop entered
ImportGetSetting(t) ==
  /\ task[t].pc = "getSetting"
  /\ \E v \in {GetSettingValue(View.settings, RemapKey), "null"} :
       LET flag == (v = "true")
           recs == ParsedRecords(task[t].file, flag)
       IN task' = [task EXCEPT ![t].remap = flag, ![t].recs = recs, ![t].i = 1,
                               ![t].pc = IF Len(recs) = 0 THEN "done" ELSE "begin",
                               ![t].ret = IF Len(recs) = 0
                                            THEN ImportResponse("", task[t]) ELSE ""]
  /\ UNCHANGED <<files, db, txn, work, clock, gd, stolen, backedUp, prevImport, io, calls>>

\* lines 94-116: the tally of one insertTrip outcome, the next record or the
\* response. outcome: "id", "duplicate", or what the call threw
Tallied(tr, outcome, id) ==
  LET last == tr.i = Len(tr.recs)
      t1 == [tr EXCEPT !.out = Append(@, [ret |-> outcome, id |-> id, fault |-> tr.fault]),
                       !.imported = IF outcome = "id" THEN @ + 1 ELSE @,
                       !.duplicates = IF outcome = "duplicate" THEN @ + 1 ELSE @,
                       !.errors = IF outcome \in {"corruption", "error"} THEN @ + 1 ELSE @,
                       !.i = @ + 1, !.err = NoErr, !.lastID = 0, !.fault = FALSE]
  IN [t1 EXCEPT !.pc = IF last THEN "done" ELSE "begin",
                !.ret = IF last THEN ImportResponse("", t1) ELSE ""]

\* no statement of the import met a storage fault
Clean(tr) == \A k \in 1..Len(tr.out) : ~tr.out[k].fault

(* --------------------------- insertTrip -------------------------------- *)
CallId(t) == <<t, task[t].n, task[t].i>>

\* lines 234-245: getDatabase hands out the open handle; BEGIN TRANSACTION
InsertBegin(t) ==
  /\ task[t].pc = "begin"
  /\ IF txn
       THEN /\ task' = [task EXCEPT ![t].pc = "rollback", ![t].err = ErrNestedBegin,
                                    ![t].pre = Committed.trips]
            /\ UNCHANGED <<txn, work>>
       ELSE /\ txn' = TRUE /\ work' = Committed
            /\ task' = [task EXCEPT ![t].pc = "insert", ![t].pre = Committed.trips]
  /\ UNCHANGED <<files, db, clock, gd, stolen, backedUp, prevImport, io, calls>>

\* lines 247-258: the INSERT statement
InsertRun(t) ==
  /\ task[t].pc = "insert"
  /\ LET r == SqlInsertTrip(View.trips, task[t].recs[task[t].i], CallId(t))
     IN \/ /\ r.err = NoErr
           /\ Write([View EXCEPT !.trips = r.trips])
           /\ task' = [task EXCEPT ![t].pc = "commit", ![t].lastID = r.lastID]
        \/ /\ r.err # NoErr
           /\ task' = [task EXCEPT ![t].pc = "rollback", ![t].err = r.err]
           /\ UNCHANGED <<files, work>>
        \/ \E e \in StorageFaults :
             /\ task' = [task EXCEPT ![t].pc = "rollback", ![t].err = e, ![t].fault = TRUE]
             /\ UNCHANGED <<files, work>>
  /\ UNCHANGED <<db, txn, clock, gd, stolen, backedUp, prevImport, io, calls>>

\* lines 260-262: COMMIT, and the call returns lastID
InsertCommit(t) ==
  /\ task[t].pc = "commit"
  /\ IF txn
       THEN /\ files' = [files EXCEPT ![DbPath].trips = work.trips,
                                      ![DbPath].settings = work.settings]
            /\ txn' = FALSE /\ work' = NoWork
            /\ task' = [task EXCEPT ![t] = Tallied(task[t], "id", task[t].lastID)]
       ELSE /\ task' = [task EXCEPT ![t].pc = "rollback", ![t].err = ErrNoTransaction]
            /\ UNCHANGED <<files, txn, work>>
  /\ UNCHANGED <<db, clock, gd, stolen, backedUp, prevImport, io, calls>>

\* lines 263-296: ROLLBACK (its own failure is logged and dropped), then the
\* error decides: DatabaseCorruptionError, false (duplicate), or rethrown
InsertRollback(t) ==
  /\ task[t].pc = "rollback"
  /\ IF txn
       THEN /\ txn' = FALSE /\ work' = NoWork
            /\ stolen' = stolen \cup
                 { r.by : r \in { s \in work.trips \ Committed.trips : s.by # CallId(t) } }
       ELSE UNCHANGED <<txn, work, stolen>>
  /\ task' = [task EXCEPT ![t] = Tallied(task[t], InsertFailure(task[t].err), 0)]
  /\ UNCHANGED <<files, db, clock, gd, backedUp, prevImport, io, calls>>

(* ----------------------- setSetting, updateTrip ------------------------ *)
\* the settings route, POST, up to the statement of setSetting
StartSetSetting(t, k, v) ==
  /\ Ready /\ task[t].pc = "idle"
  /\ task' = [task EXCEPT ![t] = [IdleTask EXCEPT !.pc = "set", !.kind = "set",
                                     !.n = task[t].n + 1, !.key = k, !.value = v]]
  /\ UNCHANGED <<files, db, txn, work, clock, gd, stolen, backedUp, prevImport, io, calls>>

\* database.ts setSetting: INSERT OR REPLACE; an error is caught and is false
SetSettingRun(t) ==
  /\ task[t].pc = "set"
  /\ \/ /\ Write([View EXCEPT !.settings[task[t].key] = task[t].value])
        /\ task' = [task EXCEPT ![t].pc = "done", ![t].ret = "true"]
     \/ /\ \E e \in StorageFaults :
             task' = [task EXCEPT ![t].pc = "done", ![t].ret = "false", ![t].fault = TRUE,
                                  ![t].err = e]
        /\ UNCHANGED <<files, work>>
  /\ UNCHANGED <<db, txn, clock, gd, stolen, backedUp, prevImport, io, calls>>

\* the settings route, GET, up to the statement of getSetting
StartGetSetting(t, k) ==
  /\ Ready /\ task[t].pc = "idle"
  /\ task' = [task EXCEPT ![t] = [IdleTask EXCEPT !.pc = "get", !.kind = "get",
                                     !.n = task[t].n + 1, !.key = k]]
  /\ UNCHANGED <<files, db, txn, work, clock, gd, stolen, backedUp, prevImport, io, calls>>

\* database.ts getSetting, lines 388-400: the SELECT; an error is caught and
\* is null
GetSettingRun(t) ==
  /\ task[t].pc = "get"
  /\ \/ task' = [task EXCEPT ![t].pc = "done",
                              ![t].ret = GetSettingValue(View.settings, task[t].key)]
     \/ \E e \in StorageFaults :
          task' = [task EXCEPT ![t].pc = "done", ![t].ret = "null", ![t].fault = TRUE,
                               ![t].err = e]
  /\ UNCHANGED <<files, db, txn, work, clock, gd, stolen, backedUp, prevImport, io, calls>>

\* database.ts updateTrip, lines 353-373: nothing to set is false at once
StartUpdateTrip(t, id, upd) ==
  /\ Ready /\ task[t].pc = "idle"
  /\ task' = [task EXCEPT ![t] =
       [IdleTask EXCEPT !.pc = IF upd = NoUpdate THEN "done" ELSE "update",
                        !.ret = IF upd = NoUpdate THEN "false" ELSE "",
                        !.kind = "update", !.n = task[t].n + 1, !.id = id, !.upd = upd]]
  /\ UNCHANGED <<files, db, txn, work, clock, gd, stolen, backedUp, prevImport, io, calls>>

\* lines 375-385: the UPDATE; result.changes > 0; an error is caught and is false
UpdateTripRun(t) ==
  /\ task[t].pc = "update"
  /\ \/ /\ Write([View EXCEPT !.trips = SqlUpdateTrip(View.trips, task[t].id, task[t].upd)])
        /\ task' = [task EXCEPT ![t].pc = "done",
                       ![t].ret = IF task[t].id \in Ids(View.trips) THEN "true" ELSE "false"]
     \/ /\ \E e \in StorageFaults :
             task' = [task EXCEPT ![t].pc = "done", ![t].ret = "false", ![t].fault = TRUE,
                                  ![t].err = e]
        /\ UNCHANGED <<files, work>>
  /\ UNCHANGED <<db, txn, clock, gd, stolen, backedUp, prevImport, io, calls>>

\* the request is answered; the slot takes the next request
\* history: the upload of a finished import and the trips stored after it
NoImport == [file |-> <<>>, clean |-> FALSE, imported |-> 0, trips |-> {}]
Finish(t) ==
  /\ task[t].pc = "done" /\ task[t].n < MaxOps
  /\ task' = [task EXCEPT ![t].pc = "idle"]
  /\ prevImport' = IF task[t].kind = "import"
                     THEN [file |-> task[t].file, clean |-> Clean(task[t]),
                           imported |-> task[t].imported, trips |-> Committed.trips]
                     ELSE prevImport
  /\ UNCHANGED <<files, db, txn, work, clock, gd, stolen, backedUp, io, calls>>

(* ---------------------------- getDatabase ------------------------------ *)
\* the activation of getDatabase: position, fileExistedBefore, the validation
\* result; history: the file found, whether a statement of the validation
\* raised, the timestamp and the count of recoveries
IdleGd ==
  [pc |-> "ready", mode |-> "", existed |-> FALSE, healthy |-> TRUE, fresh |-> FALSE,
   badIntegrity |-> FALSE, probe |-> "", now |-> 0, recoveries |-> 0, failed |-> 0, orig |-> NoFile]
DownGd == [IdleGd EXCEPT !.pc = "down"]

\* lines 143-155: db is null; existsSync, then mkdirSync when the directory
\* is missing (so the file is missing too), which may throw
GetDatabaseStart ==
  /\ db = "null" /\ gd.pc \in {"down", "failed"}
  /\ \E thrown \in {FALSE, ~files[DbPath].exists} :
       gd' = [DownGd EXCEPT !.pc = IF thrown THEN "catch" ELSE "open",
                            !.existed = files[DbPath].exists, !.orig = files[DbPath]]
  /\ UNCHANGED <<files, db, txn, work, clock, task, stolen, backedUp, prevImport, io, calls>>

\* lines 157-160: open creates the file when there is none; it may throw
GetDatabaseOpen ==
  /\ gd.pc = "open"
  /\ \/ /\ db' = "open"
        /\ files' = [files EXCEPT ![DbPath] = IF @.exists THEN @ ELSE EmptyDb]
        /\ gd' = [gd EXCEPT !.pc = "validate"]
     \/ /\ gd' = [gd EXCEPT !.pc = "catch"]
        /\ UNCHANGED <<files, db>>
  /\ UNCHANGED <<txn, work, clock, task, stolen, backedUp, prevImport, io, calls>>

\* validateDatabase, lines 51-85; thrown: a statement of the probe raised
validateDatabase(file, existed, thrown) ==
  IF thrown THEN [isHealthy |-> FALSE, isFreshDatabase |-> FALSE]
  ELSE IF ~file.ok THEN [isHealthy |-> FALSE, isFreshDatabase |-> FALSE]
  ELSE IF file.tables # Tables
    THEN IF ~existed THEN [isHealthy |-> TRUE, isFreshDatabase |-> TRUE]
         ELSE [isHealthy |-> FALSE, isFreshDatabase |-> FALSE]
  ELSE [isHealthy |-> TRUE, isFreshDatabase |-> FALSE]

\* lines 162-165, 173-177: the branch on the validation
GetDatabaseValidate ==
  /\ gd.pc = "validate"
  /\ \E thrown \in BOOLEAN :
       LET v == validateDatabase(files[DbPath], gd.existed, thrown)
       IN gd' = [gd EXCEPT !.healthy = v.isHealthy, !.fresh = v.isFreshDatabase,
                           !.badIntegrity = ~thrown /\ ~files[DbPath].ok,
                           !.probe = IF thrown THEN "raised" ELSE "reported",
                           !.pc = IF v.isHealthy THEN "createTables" ELSE "close"]
  /\ UNCHANGED <<files, db, txn, work, clock, task, stolen, backedUp, prevImport, io, calls>>

\* createTables, lines 203-231: two CREATE TABLE IF NOT EXISTS; failed is 0
\* (both ran), 1 (the first raised) or 2 (the second raised)
createTables(file, failed) ==
  [file EXCEPT !.tables = CASE failed = 0 -> Tables
                            [] failed = 1 -> @
                            [] OTHER -> @ \cup {"trips"}]

\* lines 176-180: createTables on the healthy file, then the handle is returned
GetDatabaseCreateTables ==
  /\ gd.pc = "createTables"
  /\ \E failed \in 0..2 :
       /\ files' = [files EXCEPT ![DbPath] = createTables(@, failed)]
       /\ gd' = [gd EXCEPT !.pc = IF failed = 0 THEN "ready" ELSE "catch"]
  /\ UNCHANGED <<db, txn, work, clock, task, stolen, backedUp, prevImport, io, calls>>

\* recoverDatabase, lines 90-97: the backup path of this millisecond; the
\* file, when there is one, is renamed to it (rename replaces its target)
KeepInPlace(fs, now) == fs
renameToBackup(fs, now) ==
  IF fs[DbPath].exists
    THEN [fs EXCEPT ![BackupPath(now)] = fs[DbPath], ![DbPath] = NoFile]
    ELSE fs

\* line 167 (db.close(), which may throw) and line 168, or lines 185-193 of
\* the catch block: the handle is closed, recoverDatabase runs up to its open
RecoverStart(mode) ==
  /\ \/ /\ files' = renameToBackup(files, clock)
        /\ backedUp' = IF files[DbPath].exists
                         THEN backedUp \cup {[path |-> BackupPath(clock), bytes |-> files[DbPath]]}
                         ELSE backedUp
        /\ gd' = [gd EXCEPT !.pc = "reopen", !.mode = mode, !.now = clock,
                            !.recoveries = @ + 1]
     \/ /\ files[DbPath].exists
        /\ gd' = [gd EXCEPT !.pc = "recovered", !.mode = mode, !.now = clock,
                            !.recoveries = @ + 1, !.failed = @ + 1]
        /\ UNCHANGED <<files, backedUp>>
  /\ UNCHANGED <<db, txn, work, clock, task, stolen, prevImport, io, calls>>

GetDatabaseClose ==
  /\ gd.pc = "close"
  /\ \/ RecoverStart("try")
     \/ /\ gd' = [gd EXCEPT !.pc = "catch"]
        /\ UNCHANGED <<files, db, txn, work, clock, task, stolen, backedUp, prevImport, io, calls>>

\* lines 181-193
GetDatabaseCatch ==
  /\ gd.pc = "catch"
  /\ RecoverStart("catch")

\* recoverDatabase, lines 99-104: open a database at the original path
RecoverOpen ==
  /\ gd.pc = "reopen"
  /\ \/ /\ files' = [files EXCEPT ![DbPath] = IF @.exists THEN @ ELSE EmptyDb]
        /\ gd' = [gd EXCEPT !.pc = "create"]
     \/ /\ gd' = [gd EXCEPT !.pc = "recovered", !.failed = @ + 1]
        /\ UNCHANGED files
  /\ UNCHANGED <<db, txn, work, clock, task, stolen, backedUp, prevImport, io, calls>>

\* recoverDatabase, lines 106-141: the two CREATE TABLE; any error is null
RecoverCreate ==
  /\ gd.pc = "create"
  /\ \E failed \in 0..2 :
       /\ files' = [files EXCEPT ![DbPath] = createTables(@, failed)]
       /\ gd' = [gd EXCEPT !.pc = IF failed = 0 THEN "ready" ELSE "recovered",
                           !.failed = IF failed = 0 THEN @ ELSE @ + 1]
       /\ db' = IF failed = 0 THEN "open" ELSE db
  /\ UNCHANGED <<txn, work, clock, task, stolen, backedUp, prevImport, io, calls>>

\* recoverDatabase returned null. Lines 168-172: db is null and the Error is
\* thrown inside the try block; lines 193-196: it leaves getDatabase
RecoverFailed ==
  /\ gd.pc = "recovered"
  /\ db' = "null"
  /\ gd' = [gd EXCEPT !.pc = IF gd.mode = "try" THEN "catch" ELSE "failed"]
  /\ UNCHANGED <<files, txn, work, clock, task, stolen, backedUp, prevImport, io, calls>>

GetDatabase ==
  \/ GetDatabaseStart
  \/ GetDatabaseOpen
  \/ GetDatabaseValidate
  \/ GetDatabaseCreateTables
  \/ GetDatabaseClose
  \/ GetDatabaseCatch
  \/ RecoverOpen
  \/ RecoverCreate
  \/ RecoverFailed

(* --------------------------- the environment --------------------------- *)
\* a millisecond passes (shown where the clock is read next: Date.now() of
\* recoverDatabase)
Tick ==
  /\ clock < MaxClock /\ gd.pc \in {"close", "catch"}
  /\ clock' = clock + 1
  /\ UNCHANGED <<files, db, txn, work, gd, task, stolen, backedUp, prevImport, io, calls>>

\* the process ends and starts again: the handle, the open transaction and
\* the requests are gone, the files stay
Restart ==
  /\ clock < MaxClock /\ gd.pc \in {"ready", "failed"}
  /\ clock' = clock + 1
  /\ db' = "null" /\ txn' = FALSE /\ work' = NoWork
  /\ gd' = DownGd
  /\ task' = [t \in Tasks |-> IdleTask]
  /\ UNCHANGED <<files, stolen, backedUp, prevImport, io, calls>>

\* the file is damaged while no process holds it
Damage ==
  /\ gd.pc = "down" /\ files[DbPath].exists /\ files[DbPath].ok
  /\ files' = [files EXCEPT ![DbPath].ok = FALSE]
  /\ UNCHANGED <<db, txn, work, clock, gd, task, stolen, backedUp, prevImport, io, calls>>

(* --------------------------- specifications ---------------------------- *)
\* a ready store: the handle is open on a file that createTables has set up
ReadyInit ==
  /\ files = [p \in Paths |-> IF p = DbPath THEN SchemaDb ELSE NoFile]
  /\ db = "open" /\ txn = FALSE /\ work = NoWork /\ clock = 1
  /\ gd = IdleGd
  /\ task = [t \in Tasks |-> IdleTask]
  /\ stolen = {} /\ backedUp = {} /\ prevImport = NoImport /\ io = NoIo /\ calls = NoCalls

Step(t) ==
  \/ ImportGetSetting(t)
  \/ InsertBegin(t)
  \/ InsertRun(t)
  \/ InsertCommit(t)
  \/ InsertRollback(t)
  \/ SetSettingRun(t)
  \/ UpdateTripRun(t)

\* requests that interleave on the shared handle, one operation each
Next ==
  \/ \E t \in Tasks : task[t].n = 0 /\ \E f \in Uploads : StartImport(t, f)
  \/ \E t \in Tasks : task[t].n = 0 /\ \E k \in Keys, v \in Values : StartSetSetting(t, k, v)
  \/ \E t \in Tasks : task[t].n = 0 /\ \E id \in 1..2, u \in UpdateInputs : StartUpdateTrip(t, id, u)
  \/ \E t \in Tasks : Step(t)

Spec == ReadyInit /\ [][Next]_vars

\* one request at a time: slot 1 runs operations one after the other
SeqNext ==
  \/ \E f \in Uploads : StartImport(1, f)
  \/ \E k \in Keys, v \in Values : StartSetSetting(1, k, v)
  \/ \E id \in 1..2, u \in UpdateInputs : StartUpdateTrip(1, id, u)
  \/ \E k \in Keys : StartGetSetting(1, k)
  \/ GetSettingRun(1)
  \/ Step(1)
  \/ Finish(1)

SeqSpec == ReadyInit /\ [][SeqNext]_vars

\* the process from its start: the file found is absent, set up, without
\* tables, or damaged
OneTrip == SqlInsertTrip({}, Row("Privat", "2023-12-31", Num(50), Num(100)), <<0, 0, 0>>).trips
StartFiles ==
  { NoFile, EmptyDb, SchemaDb, [SchemaDb EXCEPT !.trips = OneTrip],
    [SchemaDb EXCEPT !.trips = OneTrip, !.ok = FALSE] }

LifeInit ==
  /\ \E f \in StartFiles : files = [p \in Paths |-> IF p = DbPath THEN f ELSE NoFile]
  /\ db = "null" /\ txn = FALSE /\ work = NoWork /\ clock = 1
  /\ gd = DownGd
  /\ task = [t \in Tasks |-> IdleTask]
  /\ stolen = {} /\ backedUp = {} /\ prevImport = NoImport /\ io = NoIo /\ calls = NoCalls

LifeNext ==
  \/ GetDatabase
  \/ Tick
  \/ Restart
  \/ Damage

LifeSpec == LifeInit /\ [][LifeNext]_vars

\* the file is damaged under the open handle
DamageOpen ==
  /\ Ready /\ files[DbPath].ok
  /\ files' = [files EXCEPT ![DbPath].ok = FALSE]
  /\ UNCHANGED <<db, txn, work, clock, gd, task, stolen, backedUp, prevImport, io, calls>>

\* the process from its start, then one import: every store operation
\* begins with getDatabase, which runs the initialization while db is null
\* and hands out the open handle afterwards (line 144)
RunNext ==
  \/ GetDatabase
  \/ DamageOpen
  \/ task[1].n = 0 /\ \E f \in Uploads : StartImport(1, f)
  \/ ImportGetSetting(1)
  \/ InsertBegin(1)
  \/ InsertRun(1)
  \/ InsertCommit(1)
  \/ InsertRollback(1)

RunSpec == LifeInit /\ [][RunNext]_vars

(* ------------------- getDatabase under several callers ----------------- *)
\* lines 143-157: the test of db, and with db null the synchronous part up to
\* the await of open(); with db set, line 199 returns it
CallGetDatabase(c) ==
  /\ calls.of[c].pc = "idle"
  /\ calls' = IF calls.db # 0
                THEN [calls EXCEPT !.of[c] = [pc |-> "returned", got |-> calls.db]]
                ELSE [calls EXCEPT !.of[c].pc = "open", !.inits = @ + 1]
  /\ UNCHANGED <<files, db, txn, work, clock, gd, task, stolen, backedUp, prevImport, io>>

\* lines 157-163: open() resolves, db is assigned, validateDatabase is awaited
CallOpened(c) ==
  /\ calls.of[c].pc = "open"
  /\ calls' = [calls EXCEPT !.db = calls.opened + 1, !.opened = @ + 1,
                            !.of[c].pc = "validate"]
  /\ UNCHANGED <<files, db, txn, work, clock, gd, task, stolen, backedUp, prevImport, io>>

\* lines 163-177: the branch on the validation result
CallValidated(c) ==
  /\ calls.of[c].pc = "validate"
  /\ \E healthy \in BOOLEAN :
       calls' = [calls EXCEPT !.of[c].pc = IF healthy THEN "createTables" ELSE "close"]
  /\ UNCHANGED <<files, db, txn, work, clock, gd, task, stolen, backedUp, prevImport, io>>

\* lines 167-168: db.close() on the handle db holds now, then recoverDatabase
CallClosed(c) ==
  /\ calls.of[c].pc = "close"
  /\ calls' = [calls EXCEPT !.closed = @ \cup {calls.db}, !.of[c].pc = "recover"]
  /\ UNCHANGED <<files, db, txn, work, clock, gd, task, stolen, backedUp, prevImport, io>>

\* lines 168, 99-104, 199: recoverDatabase opens a handle, db is assigned and
\* returned
CallRecovered(c) ==
  /\ calls.of[c].pc = "recover"
  /\ calls' = [calls EXCEPT !.db = calls.opened + 1, !.opened = @ + 1,
                            !.of[c] = [pc |-> "returned", got |-> calls.opened + 1]]
  /\ UNCHANGED <<files, db, txn, work, clock, gd, task, stolen, backedUp, prevImport, io>>

\* lines 173-180, 199: createTables resolves and the handle db holds now is
\* returned
CallCreated(c) ==
  /\ calls.of[c].pc = "createTables"
  /\ calls' = [calls EXCEPT !.of[c] = [pc |-> "returned", got |-> calls.db]]
  /\ UNCHANGED <<files, db, txn, work, clock, gd, task, stolen, backedUp, prevImport, io>>

CallsNext ==
  \E c \in Callers :
    \/ CallGetDatabase(c)
    \/ CallOpened(c)
    \/ CallValidated(c)
    \/ CallClosed(c)
    \/ CallRecovered(c)
    \/ CallCreated(c)

\* the process has started on a set-up file and no call has been made
CallsInit ==
  /\ files = [p \in Paths |-> IF p = DbPath THEN SchemaDb ELSE NoFile]
  /\ db = "null" /\ txn = FALSE /\ work = NoWork /\ clock = 1
  /\ gd = DownGd
  /\ task = [t \in Tasks |-> IdleTask]
  /\ stolen = {} /\ backedUp = {} /\ prevImport = NoImport /\ io = NoIo /\ calls = NoCalls

CallsSpec == CallsInit /\ [][CallsNext]_vars

(* ---------------------------- csvParser.ts ----------------------------- *)
\* a text is a sequence of characters; a word ("Arbete", "2024-01-31")
\* stands for its letters
DigitChars == <<"0", "1", "2", "3", "4", "5", "6", "7", "8", "9">>
IsDigit(c) == \E i \in DOMAIN DigitChars : DigitChars[i] = c
DigitValue(c) == (CHOOSE i \in DOMAIN DigitChars : DigitChars[i] = c) - 1
\* what the regular expression \s and trim() take as white space
IsSpace(c) == c \in {" ", "TAB", "BOM", "CR", "LF", "NBSP"}

RECURSIVE DropSpaces(_)
DropSpaces(s) == IF s # <<>> /\ IsSpace(s[1]) THEN DropSpaces(Tail(s)) ELSE s
RECURSIVE DropSpacesAtEnd(_)
DropSpacesAtEnd(s) ==
  IF s # <<>> /\ IsSpace(s[Len(s)]) THEN DropSpacesAtEnd(SubSeq(s, 1, Len(s) - 1)) ELSE s
RECURSIVE CollapseSpaces(_)
CollapseSpaces(s) ==
  IF s = <<>> THEN <<>>
  ELSE IF IsSpace(s[1]) THEN <<" ">> \o CollapseSpaces(DropSpaces(s))
  ELSE <<s[1]>> \o CollapseSpaces(Tail(s))
RECURSIVE Without(_, _)
Without(s, c) ==
  IF s = <<>> THEN <<>>
  ELSE IF s[1] = c THEN Without(Tail(s), c) ELSE <<s[1]>> \o Without(Tail(s), c)
RECURSIVE ReplaceFirst(_, _, _)
ReplaceFirst(s, a, b) ==
  IF s = <<>> THEN <<>>
  ELSE IF s[1] = a THEN <<b>> \o Tail(s) ELSE <<s[1]>> \o ReplaceFirst(Tail(s), a, b)

\* csvParser.ts cleanText, lines 3-11: a leading BOM removed, runs of white
\* space made one space, NUL removed, trimmed
cleanText(text) ==
  IF text = <<>> THEN <<>>
  ELSE LET noBom == IF text[1] = "BOM" THEN Tail(text) ELSE text
       IN DropSpacesAtEnd(DropSpaces(Without(CollapseSpaces(noBom), "NUL")))

RECURSIVE DigitPrefix(_)
DigitPrefix(s) ==
  IF s # <<>> /\ IsDigit(s[1]) THEN <<s[1]>> \o DigitPrefix(Tail(s)) ELSE <<>>
RECURSIVE DigitsValue(_, _)
DigitsValue(ds, acc) ==
  IF ds = <<>> THEN acc ELSE DigitsValue(Tail(ds), acc * 10 + DigitValue(ds[1]))
Unsigned(s) == IF s # <<>> /\ s[1] \in {"-", "+"} THEN Tail(s) ELSE s
Signed(s, v) == IF s # <<>> /\ s[1] = "-" THEN 0 - v ELSE v

\* JavaScript parseInt: leading white space, a sign, the longest run of
\* digits; NaN when there is no digit
parseInt(text) ==
  LET s == DropSpaces(text)
      ds == DigitPrefix(Unsigned(s))
  IN IF ds = <<>> THEN NaN ELSE Num(Signed(s, DigitsValue(ds, 0)))

\* JavaScript parseFloat: as parseInt, with a fraction after "."; NaN when
\* there is no digit. The value is held in tenths (the texts drawn carry at
\* most one decimal)
parseFloat(text) ==
  LET s == DropSpaces(text)
      body == Unsigned(s)
      ip == DigitPrefix(body)
      rest == SubSeq(body, Len(ip) + 1, Len(body))
      fp == IF rest # <<>> /\ rest[1] = "." THEN DigitPrefix(Tail(rest)) ELSE <<>>
      tenths == DigitsValue(ip, 0) * 10 + (IF fp = <<>> THEN 0 ELSE DigitValue(fp[1]))
  IN IF ip = <<>> /\ fp = <<>> THEN NaN ELSE Num(Signed(s, tenths))

\* values[i] || '0'
OrZero(text) == IF text = <<>> THEN <<"0">> ELSE text

\* parseCSVData needs this many fields in a row (lines 48, 142)
MinFields == 14

\* lines 50-73 and 144-167: the trip of a row; values[0] of the code is
\* values[1] here
RemapBeforeCleaning(values, mapOkategoriseratToPrivat) ==
  [category |-> IF mapOkategoriseratToPrivat /\ values[1] = <<"Okategoriserat">>
                  THEN <<"Privat">> ELSE cleanText(values[1]),
   startDate |-> cleanText(values[2]),
   odometerStart |-> parseInt(cleanText(OrZero(values[3]))),
   odometerEnd |-> parseInt(cleanText(OrZero(values[6]))),
   distance |-> parseFloat(ReplaceFirst(cleanText(OrZero(values[9])), ",", ".")),
   notes |-> cleanText(values[14])]
DecodeRow(values, mapOkategoriseratToPrivat) ==
  LET category == cleanText(values[1])
  IN [category |-> IF mapOkategoriseratToPrivat /\ category = <<"Okategoriserat">>
                     THEN <<"Privat">> ELSE category,
      startDate |-> cleanText(values[2]),
      odometerStart |-> parseInt(cleanText(OrZero(values[3]))),
      odometerEnd |-> parseInt(cleanText(OrZero(values[6]))),
      distance |-> parseFloat(ReplaceFirst(cleanText(OrZero(values[9])), ",", ".")),
      notes |-> cleanText(values[14])]

\* JavaScript > and === on numbers: false when an operand is NaN
Greater(a, b) == ~a.nan /\ ~b.nan /\ a.v > b.v
IsZero(a) == ~a.nan /\ a.v = 0

\* lines 82-96 and 176-190: the validation of a trip
RejectReversedOdometer(trip) ==
  IF trip.category = <<>> \/ trip.startDate = <<>> THEN "missing"
  ELSE IF Greater(trip.odometerStart, trip.odometerEnd) THEN "odometer"
  ELSE IF IsZero(trip.odometerStart) /\ IsZero(trip.odometerEnd) /\ IsZero(trip.distance)
    THEN "empty"
  ELSE "accept"
RowVerdict(trip) ==
  IF trip.category = <<>> \/ trip.startDate = <<>> THEN "missing"
  ELSE IF Greater(trip.odometerStart, trip.odometerEnd) /\ Greater(trip.distance, Num(0))
    THEN "odometer"
  ELSE IF IsZero(trip.odometerStart) /\ IsZero(trip.odometerEnd) /\ IsZero(trip.distance)
    THEN "empty"
  ELSE "accept"

\* lines 39-104 and 133-198: the loop over the non-blank rows. A row short of
\* fields is passed over; a rejected row adds to skippedLines; line 221
\* resolves with the results alone
RECURSIVE ParseRows(_, _, _)
ParseRows(rows, flag, acc) ==
  IF rows = <<>> THEN acc
  ELSE LET values == rows[1]
           trip == DecodeRow(values, flag)
       IN ParseRows(Tail(rows), flag,
            IF Len(values) < MinFields THEN acc
            ELSE IF RowVerdict(trip) = "accept"
              THEN [acc EXCEPT !.results = Append(@, trip)]
            ELSE [acc EXCEPT !.skippedLines = @ + 1])
parseCSVData(rows, flag) == ParseRows(rows, flag, [results |-> <<>>, skippedLines |-> 0])

\* the rows drawn: the field count and the texts of the fields the trip's
\* constraints read
CsvRow(n, category, startDate, odometerStart, odometerEnd, distance) ==
  [i \in 1..n |-> CASE i = 1 -> category [] i = 2 -> startDate [] i = 3 -> odometerStart
                    [] i = 6 -> odometerEnd [] i = 9 -> distance [] OTHER -> <<>>]
Keywords == {<<"Privat">>, <<"Arbete">>, <<"Okategoriserat">>}
CategoryTexts == Keywords \cup {<<>>, <<" ", "Okategoriserat", " ">>, <<"Taxi">>}
DateTexts == {<<>>, <<"2024-01-31">>}
OdometerTexts == {<<>>, <<" ">>, <<"0">>, <<"1", "0", "0">>, <<"5", "0">>, <<"-", "5">>, <<"k", "m">>}
DistanceTexts ==
  {<<>>, <<"0">>, <<"1", "0", ",", "0">>, <<"0", ",", "5">>, <<"-", "3">>, <<"k", "m">>}
FieldCounts == {MinFields - 1, MinFields, MinFields + 1}
CsvRows ==
  { CsvRow(n, c, d, os, oe, di) :
      n \in FieldCounts, c \in CategoryTexts, d \in DateTexts,
      os \in OdometerTexts, oe \in OdometerTexts, di \in DistanceTexts }
SampleRows ==
  { CsvRow(n, <<"Arbete">>, <<"2024-01-31">>, os, <<"5", "0">>, <<"1", "0", ",", "0">>) :
      n \in FieldCounts, os \in {<<"0">>, <<"1", "0", "0">>} }
CsvInputs == { <<r>> : r \in CsvRows } \cup { <<a, b>> : a, b \in SampleRows }

\* the legacy layout cuts the text in front of every keyword followed by ";"
\* (lines 112-130): each of its rows starts with a keyword
StartsWithKeyword(values) == Len(values) >= 2 /\ values[1] \in Keywords

\* the line layout, lines 34-104 and 201-221
ParseLines ==
  /\ io.op = "parseCSVData" /\ io.args.layout = "lines" /\ io.ret = <<>>
  /\ io' = [io EXCEPT !.ret = parseCSVData(io.args.rows, io.args.flag)]
  /\ UNCHANGED <<files, db, txn, work, clock, gd, task, stolen, backedUp, prevImport, calls>>

\* the legacy single-line layout, lines 105-221
ParseSingleLine ==
  /\ io.op = "parseCSVData" /\ io.args.layout = "single" /\ io.ret = <<>>
  /\ io' = [io EXCEPT !.ret = parseCSVData(io.args.rows, io.args.flag)]
  /\ UNCHANGED <<files, db, txn, work, clock, gd, task, stolen, backedUp, prevImport, calls>>

ParseInit ==
  /\ files = [p \in Paths |-> IF p = DbPath THEN SchemaDb ELSE NoFile]
  /\ db = "open" /\ txn = FALSE /\ work = NoWork /\ clock = 1
  /\ gd = IdleGd
  /\ task = [t \in Tasks |-> IdleTask]
  /\ stolen = {} /\ backedUp = {} /\ prevImport = NoImport /\ calls = NoCalls
  /\ \E rows \in CsvInputs, flag \in BOOLEAN, layout \in {"lines", "single"} :
       /\ layout = "single" => \A k \in DOMAIN rows : StartsWithKeyword(rows[k])
       /\ io = [op |-> "parseCSVData", ret |-> <<>>,
                args |-> [rows |-> rows, flag |-> flag, layout |-> layout]]

ParseNext == ParseLines \/ ParseSingleLine

ParseSpec == ParseInit /\ [][ParseNext]_vars

(* ------------------- csvParser.ts: the layouts of a text --------------- *)
\* lines 22-25: a leading BOM and every NUL removed, a no-break space made
\* a space
NotNul(c) == c # "NUL"
PreClean(csvContent) ==
  LET noBom == IF csvContent # <<>> /\ csvContent[1] = "BOM" THEN Tail(csvContent)
               ELSE csvContent
      noNul == SelectSeq(noBom, NotNul)
  IN [i \in DOMAIN noNul |-> IF noNul[i] = "NBSP" THEN " " ELSE noNul[i]]

\* the k-th position of a set of positions
Nth(P, k) == CHOOSE i \in P : Cardinality({ j \in P : j < i }) = k - 1

\* String.split on a one-character separator: the pieces between the
\* separators, empty ones included
SplitOn(s, sep) ==
  LET P == { i \in DOMAIN s : s[i] = sep }
      n == Cardinality(P)
  IN [k \in 1..(n + 1) |->
        SubSeq(s, IF k = 1 THEN 1 ELSE Nth(P, k - 1) + 1,
                  IF k = n + 1 THEN Len(s) ELSE Nth(P, k) - 1)]

\* line 31: split(/\r?\n/); a CR right before the LF belongs to the break
SplitLines(s) ==
  LET p == SplitOn(s, "LF")
  IN [i \in DOMAIN p |->
        IF i < Len(p) /\ p[i] # <<>> /\ p[i][Len(p[i])] = "CR"
          THEN SubSeq(p[i], 1, Len(p[i]) - 1) ELSE p[i]]

\* String.trim
Trim(s) == DropSpacesAtEnd(DropSpaces(s))

\* lines 40-46 and 134-140: the pieces that are not blank after trim(), each
\* split on ";"
RECURSIVE RowsOf(_)
RowsOf(pieces) ==
  IF pieces = <<>> THEN <<>>
  ELSE IF Trim(pieces[1]) = <<>> THEN RowsOf(Tail(pieces))
  ELSE <<SplitOn(Trim(pieces[1]), ";")>> \o RowsOf(Tail(pieces))

\* line 34: the test for the line layout
LinesWhenTwo(lines) == Len(lines) > 1
IsLineLayout(lines) == Len(lines) > 2

\* line 113: /(Privat|Arbete|Okategoriserat);/ matches at position i
KeywordAt(s, i) == i < Len(s) /\ <<s[i]>> \in Keywords /\ s[i + 1] = ";"
\* line 116: content.search(categoryPattern); 0 stands for -1 (positions
\* start at 1 here)
search(s) ==
  IF \E i \in DOMAIN s : KeywordAt(s, i)
    THEN CHOOSE i \in DOMAIN s : KeywordAt(s, i) /\ \A j \in 1..(i - 1) : ~KeywordAt(s, j)
    ELSE 0

\* line 130: split(/(?=(?:Privat|Arbete|Okategoriserat);)/): a cut in front
\* of every match but one at the very start
CutAtFirstKeywordOnly(s) == <<s>>
SplitBeforeKeywords(s) ==
  LET P == { i \in 2..Len(s) : KeywordAt(s, i) }
      n == Cardinality(P)
  IN [k \in 1..(n + 1) |->
        SubSeq(s, IF k = 1 THEN 1 ELSE Nth(P, k - 1),
                  IF k = n + 1 THEN Len(s) ELSE Nth(P, k) - 1)]

\* lines 105-142: the rows of the legacy single-line layout
PreambleInFirstRow(content) ==
  IF search(content) = 0 THEN <<>>
  ELSE LET p == SplitBeforeKeywords(SubSeq(content, search(content), Len(content)))
       IN RowsOf([p EXCEPT ![1] = SubSeq(content, 1, search(content) - 1) \o @])
LegacyRows(content) ==
  IF search(content) = 0 THEN <<>>
  ELSE RowsOf(SplitBeforeKeywords(SubSeq(content, search(content), Len(content))))

\* lines 14-221: parseCSVData on a text; layout records the branch of line 34
parseCSVText(csvContent, mapOkategoriseratToPrivat) ==
  LET cleanedContent == PreClean(csvContent)
      lines == SplitLines(cleanedContent)
      rows == IF IsLineLayout(lines) THEN RowsOf(Tail(lines)) ELSE LegacyRows(cleanedContent)
      r == parseCSVData(rows, mapOkategoriseratToPrivat)
  IN [layout |-> IF IsLineLayout(lines) THEN "lines" ELSE "single",
      results |-> r.results, skippedLines |-> r.skippedLines]

\* the texts drawn. A row is its fields joined with ";"
RECURSIVE Join(_, _)
Join(seqs, sep) ==
  IF seqs = <<>> THEN <<>>
  ELSE IF Len(seqs) = 1 THEN seqs[1]
  ELSE seqs[1] \o sep \o Join(Tail(seqs), sep)
RECURSIVE Concat(_)
Concat(seqs) == IF seqs = <<>> THEN <<>> ELSE seqs[1] \o Concat(Tail(seqs))
RowText(values) == Join(values, <<";">>)

\* the row of the sample: Privat;2024-01-01;100;A;2024-01-01;150;B;1h 0m;
\* 50.0;5 l;Trip;0 kWh;0 kWh;
SampleRow ==
  << <<"Privat">>, <<"2024-01-01">>, <<"1", "0", "0">>, <<"A">>, <<"2024-01-01">>,
     <<"1", "5", "0">>, <<"B">>, <<"1h", " ", "0m">>, <<"5", "0", ".", "0">>,
     <<"5", " ", "l">>, <<"Trip">>, <<"0", " ", "kWh">>, <<"0", " ", "kWh">>, <<>> >>
TextRows ==
  { SampleRow,
    [SampleRow EXCEPT ![1] = <<"Arbete">>, ![9] = <<"1", "0", ",", "0">>,
                      ![14] = <<"Till", " ", "Arbete">>],
    [SampleRow EXCEPT ![1] = <<"Okategoriserat">>, ![11] = <<"Privat", " ", "resa">>,
                      ![14] = <<" ", "x", " ">>],
    [SampleRow EXCEPT ![1] = <<"Arbete">>, ![3] = <<"0">>, ![6] = <<"0">>, ![9] = <<"0">>],
    SubSeq(SampleRow, 1, MinFields - 1),
    SampleRow \o << <<"more">> >> }
MaxTextRows == 2
RowLists == UNION { [1..n -> TextRows] : n \in 0..MaxTextRows }
\* what stands in front of the rows: nothing, the preamble of the sample, a
\* header row, a row of data
Preambles ==
  { <<>>, <<"Header", " ", "stuff", " ">>, <<"BOM", "Kategori", ";", "Startdatum", ";", "NUL">>,
    RowText(SampleRow) }
Breaks == { <<"LF">>, <<"CR", "LF">> }
\* the rows on one line after the preamble
SingleLineText(preamble, rows) ==
  preamble \o Concat([k \in DOMAIN rows |-> RowText(rows[k])])
\* the rows one per line after a header line, with or without a last break
LinesText(header, rows, break, lastBreak) ==
  header \o Concat([k \in DOMAIN rows |-> break \o RowText(rows[k])])
         \o (IF lastBreak THEN break ELSE <<>>)
Texts ==
  [form : {"single"}, preamble : Preambles, rows : RowLists, break : {<<>>},
   lastBreak : {FALSE}]
  \cup [form : {"lines"}, preamble : Preambles, rows : RowLists, break : Breaks,
         lastBreak : BOOLEAN]
TextOf(t) ==
  IF t.form = "single" THEN SingleLineText(t.preamble, t.rows)
  ELSE LinesText(t.preamble, t.rows, t.break, t.lastBreak)

\* parseCSVData is called on the text and resolves
ParseText ==
  /\ io.op = "parseCSVData on a text" /\ io.ret = <<>>
  /\ io' = [io EXCEPT !.ret = parseCSVText(io.args.content, io.args.flag)]
  /\ UNCHANGED <<files, db, txn, work, clock, gd, task, stolen, backedUp, prevImport, calls>>

TextInit ==
  /\ files = [p \in Paths |-> IF p = DbPath THEN SchemaDb ELSE NoFile]
  /\ db = "open" /\ txn = FALSE /\ work = NoWork /\ clock = 1
  /\ gd = IdleGd
  /\ task = [t \in Tasks |-> IdleTask]
  /\ stolen = {} /\ backedUp = {} /\ prevImport = NoImport /\ calls = NoCalls
  /\ \E t \in Texts, flag \in BOOLEAN :
       io = [op |-> "parseCSVData on a text", ret |-> <<>>,
             args |-> [content |-> TextOf(t), flag |-> flag, text |-> t]]

TextNext == ParseText

TextSpec == TextInit /\ [][TextNext]_vars

(* ---------------- the import route: decoding the upload ---------------- *)
\* bytes are numbers 0..255, a text is its sequence of code points
Replacement == 65533
ByteOrderMark == 65279
\* TextDecoder drops one byte order mark at the start of the text
StripMark(text) == IF text # <<>> /\ text[1] = ByteOrderMark THEN Tail(text) ELSE text

\* TextDecoder('utf-16le') and ('utf-16be'), not fatal: a code unit of two
\* bytes, the replacement character for a last odd byte (the bytes drawn
\* form no surrogate)
RECURSIVE Utf16Units(_, _)
Utf16Units(bytes, littleEndian) ==
  IF bytes = <<>> THEN <<>>
  ELSE IF Len(bytes) = 1 THEN <<Replacement>>
  ELSE <<IF littleEndian THEN bytes[1] + 256 * bytes[2] ELSE 256 * bytes[1] + bytes[2]>>
       \o Utf16Units(SubSeq(bytes, 3, Len(bytes)), littleEndian)
Utf16(bytes, littleEndian) == StripMark(Utf16Units(bytes, littleEndian))

\* the UTF-8 decoder: the continuation bytes a lead byte needs (0 - 1 for a
\* byte that cannot lead) and the range of the first of them
Needs(b) ==
  IF b <= 127 THEN 0
  ELSE IF b >= 194 /\ b <= 223 THEN 1
  ELSE IF b >= 224 /\ b <= 239 THEN 2
  ELSE IF b >= 240 /\ b <= 244 THEN 3
  ELSE 0 - 1
Lower(b) == IF b = 224 THEN 160 ELSE IF b = 240 THEN 144 ELSE 128
Upper(b) == IF b = 237 THEN 159 ELSE IF b = 244 THEN 143 ELSE 191
Continues(s, k) ==
  /\ k + 1 <= Len(s)
  /\ IF k = 1 THEN s[2] >= Lower(s[1]) /\ s[2] <= Upper(s[1])
      ELSE s[k + 1] >= 128 /\ s[k + 1] <= 191
\* one step: the bytes consumed and the code point, or bad
Utf8Step(s) ==
  LET need == Needs(s[1])
      payload == IF need = 1 THEN s[1] - 192 ELSE IF need = 2 THEN s[1] - 224 ELSE s[1] - 240
  IN IF need < 0 THEN [n |-> 1, bad |-> TRUE, cp |-> 0]
     ELSE IF need = 0 THEN [n |-> 1, bad |-> FALSE, cp |-> s[1]]
     ELSE IF \E k \in 1..need : ~Continues(s, k)
       THEN [n |-> CHOOSE k \in 1..need : ~Continues(s, k) /\ \A j \in 1..(k - 1) : Continues(s, j),
             bad |-> TRUE, cp |-> 0]
     ELSE [n |-> need + 1, bad |-> FALSE,
           cp |-> CASE need = 1 -> payload * 64 + (s[2] - 128)
                    [] need = 2 -> payload * 4096 + (s[2] - 128) * 64 + (s[3] - 128)
                    [] OTHER -> payload * 262144 + (s[2] - 128) * 4096 + (s[3] - 128) * 64
                                + (s[4] - 128)]
\* the code points; with fatal, ok is FALSE at the first bad sequence;
\* without, a bad sequence gives the replacement character
RECURSIVE Utf8Units(_, _)
Utf8Units(bytes, fatal) ==
  IF bytes = <<>> THEN [ok |-> TRUE, text |-> <<>>]
  ELSE LET st == Utf8Step(bytes)
           rest == Utf8Units(SubSeq(bytes, st.n + 1, Len(bytes)), fatal)
       IN IF st.bad /\ fatal THEN [ok |-> FALSE, text |-> <<>>]
          ELSE [ok |-> rest.ok,
                text |-> <<IF st.bad THEN Replacement ELSE st.cp>> \o rest.text]
\* TextDecoder('utf-8') and TextDecoder('utf-8', {fatal: true})
Utf8(bytes, fatal) ==
  LET r == Utf8Units(bytes, fatal) IN [ok |-> r.ok, text |-> StripMark(r.text)]

\* ISO-8859-1: every byte is its code point
Latin1(bytes) == bytes
\* windows-1252: as ISO-8859-1 but for 128..159; of these the bytes drawn
\* hold 128, the euro sign
Windows1252(bytes) == [i \in DOMAIN bytes |-> IF bytes[i] = 128 THEN 8364 ELSE bytes[i]]
\* what TextDecoder does for the label 'iso-8859-1': the Encoding Standard
\* makes it a label of windows-1252; a runtime may decode it as ISO-8859-1
LabelIso88591 == {"windows-1252", "iso-8859-1"}

\* part_001 lines 48-78: the decoding chosen by the first bytes
StartsWith(bytes, mark) == Len(bytes) >= Len(mark) /\ SubSeq(bytes, 1, Len(mark)) = mark
MarkOf(bytes) ==
  IF StartsWith(bytes, <<255, 254>>) THEN "utf-16le"
  ELSE IF StartsWith(bytes, <<254, 255>>) THEN "utf-16be"
  ELSE IF StartsWith(bytes, <<239, 187, 191>>) THEN "utf-8"
  ELSE "none"
decodeUpload(bytes, iso88591) ==
  CASE MarkOf(bytes) = "utf-16le" -> Utf16(SubSeq(bytes, 3, Len(bytes)), TRUE)
    [] MarkOf(bytes) = "utf-16be" -> Utf16(SubSeq(bytes, 3, Len(bytes)), FALSE)
    [] MarkOf(bytes) = "utf-8" -> Utf8(SubSeq(bytes, 4, Len(bytes)), FALSE).text
    [] OTHER -> IF Utf8(bytes, TRUE).ok THEN Utf8(bytes, TRUE).text
                ELSE IF iso88591 = "iso-8859-1" THEN Latin1(bytes) ELSE Windows1252(bytes)

\* the uploads drawn: A, the bytes of the marks, 0xE5 (a-ring in ISO-8859-1),
\* 0xC3 0xA5 (a-ring in UTF-8), 0x80, 0x00
ByteSamples == {65, 255, 254, 239, 187, 191, 229, 195, 165, 128, 0}
MaxBytes == 4
ByteInputs == UNION { [1..n -> ByteSamples] : n \in 0..MaxBytes }

DecodeUpload ==
  /\ io.op = "decode" /\ io.ret = <<>>
  /\ \E iso88591 \in LabelIso88591 :
       io' = [io EXCEPT !.ret = [text |-> decodeUpload(io.args.bytes, iso88591),
                                 iso88591 |-> iso88591]]
  /\ UNCHANGED <<files, db, txn, work, clock, gd, task, stolen, backedUp, prevImport, calls>>

DecodeInit ==
  /\ files = [p \in Paths |-> IF p = DbPath THEN SchemaDb ELSE NoFile]
  /\ db = "open" /\ txn = FALSE /\ work = NoWork /\ clock = 1
  /\ gd = IdleGd
  /\ task = [t \in Tasks |-> IdleTask]
  /\ stolen = {} /\ backedUp = {} /\ prevImport = NoImport /\ calls = NoCalls
  /\ \E bytes \in ByteInputs : io = [op |-> "decode", ret |-> <<>>, args |-> [bytes |-> bytes]]

DecodeNext == DecodeUpload

DecodeSpec == DecodeInit /\ [][DecodeNext]_vars

(* ------------------------------ getTrips ------------------------------- *)
\* the calendar: days 1..LastDay stand for consecutive dates ("2024-03-30",
\* "2024-03-31", ...); summer time starts on the day before the last
LastDay == 3
DstDay == LastDay - 1
\* pages and page sizes asked for
MaxPage == 2
MaxLimit == 2

\* a startDate text "YYYY-MM-DD" (time 0) or "YYYY-MM-DD hh:mm" (time > 0),
\* in the order sqlite compares TEXT: a prefix sorts first
DateText(day, time) == [day |-> day, time |-> time]
DateLess(a, b) == a.day < b.day \/ (a.day = b.day /\ a.time < b.time)
NoDate == 0

\* the zone of the process: hours ahead of UTC, and the instant (hours since
\* day 0, UTC) from which summer time adds one hour
NoDst == 0 - 1
Zones ==
  { [name |-> "UTC", std |-> 0, dstAt |-> NoDst],
    [name |-> "Europe/Stockholm", std |-> 1, dstAt |-> 24 * DstDay + 1],
    [name |-> "America/New_York", std |-> 0 - 5, dstAt |-> 24 * DstDay + 7] }
\* the offset at an instant, and at a local wall-clock hour
OffsetAt(tz, instant) == IF tz.dstAt # NoDst /\ instant >= tz.dstAt THEN tz.std + 1 ELSE tz.std
OffsetAtLocal(tz, wall) == OffsetAt(tz, wall - tz.std)

\* lines 327-329: new Date(dateTo) is midnight UTC of that day; setDate and
\* getDate work on the local date and keep the local time of day;
\* toISOString().split('T')[0] is the UTC date of the result
nextDay(dateTo, tz) ==
  LET utc == 24 * dateTo
      wall == utc + OffsetAt(tz, utc)
      moved == wall + 24
  IN (moved - OffsetAtLocal(tz, moved)) \div 24

\* lines 310-332: the WHERE clause
Where(trip, q, tz) ==
  /\ q.category # "" => trip.category = q.category
  /\ q.dateFrom # NoDate => ~DateLess(trip.startDate, DateText(q.dateFrom, 0))
  /\ q.dateTo # NoDate => DateLess(trip.startDate, DateText(nextDay(q.dateTo, tz), 0))

\* ORDER BY startDate ASC | DESC: the orders sqlite may give (rows of one
\* startDate come in any order)
Orderings(rows, sortOrder) ==
  { o \in [1..Cardinality(rows) -> rows] :
      /\ \A i, j \in DOMAIN o : i # j => o[i] # o[j]
      /\ \A i, j \in DOMAIN o : i < j =>
           IF sortOrder = "asc" THEN ~DateLess(o[j].startDate, o[i].startDate)
           ELSE ~DateLess(o[i].startDate, o[j].startDate) }
Min(a, b) == IF a < b THEN a ELSE b
\* LIMIT ? OFFSET ?
LimitOffset(o, limit, offset) == SubSeq(o, offset + 1, Min(offset + limit, Len(o)))

\* the trips route, lines 17-27: only a DatabaseCorruptionError gives the
\* isCorruption response; the error of a statement is not one
TripsResponse(class) == IF class = "DatabaseCorruptionError" THEN "isCorruption" ELSE "failed"
\* the class of what a failed statement throws: the driver's Error
StatementErrorClass == "Error"

\* the stored trips the queries run on
QueryRows ==
  { Row("Arbete", DateText(DstDay - 1, 0), Num(100), Num(150)),
    Row("Arbete", DateText(DstDay, 0), Num(150), Num(170)),
    Row("Privat", DateText(DstDay, 830), Num(170), Num(200)),
    Row("Privat", DateText(DstDay, 830), Num(200), Num(210)),
    Row("Arbete", DateText(DstDay + 1, 700), Num(210), Num(250)) }
RECURSIVE Stored(_, _)
Stored(rows, trips) ==
  IF rows = {} THEN trips
  ELSE LET r == CHOOSE x \in rows : \A y \in rows : ~DateLess(y.startDate, x.startDate)
                                                     /\ (y.startDate = x.startDate
                                                         => x.odometerStart.v <= y.odometerStart.v)
       IN Stored(rows \ {r}, SqlInsertTrip(trips, r, <<0, 0, 0>>).trips)
QueryTables == { Stored(rows, {}) : rows \in {x \in SUBSET QueryRows : Cardinality(x) \in {0, 3, 5}} }
Queries ==
  [page : 1..MaxPage, limit : 1..MaxLimit, category : {"", "Arbete"},
   dateFrom : {NoDate, DstDay}, dateTo : {NoDate, DstDay - 1, DstDay},
   sortOrder : {"asc", "desc"}]

\* getTrips, lines 299-351: the page, then the count; the error of a
\* statement leaves getTrips as it is and the route answers
GetTrips ==
  /\ io.op = "getTrips" /\ io.ret = <<>> /\ Ready
  /\ LET q == io.args
         hits == { r \in View.trips : Where(r, q, io.tz) }
     IN \/ \E o \in Orderings(hits, q.sortOrder) :
             io' = [io EXCEPT !.ret = [thrown |-> NoErr, response |-> "result",
                                       trips |-> LimitOffset(o, q.limit, (q.page - 1) * q.limit),
                                       total |-> Cardinality(hits)]]
        \/ \E e \in StorageFaults :
             io' = [io EXCEPT !.ret = [thrown |-> e, response |-> TripsResponse(StatementErrorClass),
                                       trips |-> <<>>, total |-> 0]]
  /\ UNCHANGED <<files, db, txn, work, clock, gd, task, stolen, backedUp, prevImport, calls>>

QueryInit ==
  /\ \E trips \in QueryTables :
       files = [p \in Paths |-> IF p = DbPath THEN [SchemaDb EXCEPT !.trips = trips] ELSE NoFile]
  /\ db = "open" /\ txn = FALSE /\ work = NoWork /\ clock = 1
  /\ gd = IdleGd
  /\ task = [t \in Tasks |-> IdleTask]
  /\ stolen = {} /\ backedUp = {} /\ prevImport = NoImport /\ calls = NoCalls
  /\ \E q \in Queries, tz \in Zones :
       io = [op |-> "getTrips", args |-> q, tz |-> tz, ret |-> <<>>]

QueryNext == GetTrips

QuerySpec == QueryInit /\ [][QueryNext]_vars

(* ------------------------- the summary route --------------------------- *)
\* sqlite instr(X, Y): the position of the first Y in X, 0 when there is none
instr(d, c) ==
  IF \E i \in DOMAIN d : d[i] = c
    THEN CHOOSE i \in DOMAIN d : d[i] = c /\ \A j \in 1..(i - 1) : d[j] # c
    ELSE 0
Max(a, b) == IF a > b THEN a ELSE b
\* sqlite substr(X, Y, Z) for Y >= 1: Z characters from the Y-th; for a
\* negative Z the characters before the Y-th
substr(d, start, len) ==
  IF len >= 0 THEN SubSeq(d, start, Min(start + len - 1, Len(d)))
  ELSE SubSeq(d, Max(start + len, 1), Min(start - 1, Len(d)))
\* CAST(X AS INTEGER) of a text: the integer at its start, 0 without one
CastInteger(t) ==
  LET x == DropSpaces(t)
      ds == DigitPrefix(Unsigned(x))
  IN IF ds = <<>> THEN 0 ELSE Signed(x, DigitsValue(ds, 0))
\* X LIKE '%h%': LIKE does not tell the case of a letter
Like(d, c, capital) == \E i \in DOMAIN d : d[i] \in {c, capital}

\* lines 90-100: the minutes the statement takes from one duration
SqlMinutes(d) ==
  IF Like(d, "m", "M")
    THEN CastInteger(substr(d, instr(d, "h") + 2, instr(d, "m") - instr(d, "h") - 2))
  ELSE 0
SqlHours(d) ==
  IF Like(d, "h", "H") THEN CastInteger(substr(d, 1, instr(d, "h") - 1)) * 60 ELSE 0

\* SUM over the rows of the statement
RECURSIVE SumOf(_, _)
SumOf(rows, field) ==
  IF rows = {} THEN 0
  ELSE LET r == CHOOSE x \in rows : TRUE IN r[field] + SumOf(rows \ {r}, field)

\* the stored trips the summary runs on: the durations of the export
\* ("1h 30m", "2h", "45m", "0h 5m", none)
SummaryRow(id, category, day, distance, duration) ==
  [id |-> id, category |-> category, startDate |-> DateText(day, 830),
   distance |-> distance, duration |-> duration,
   minutes |-> SqlHours(duration) + SqlMinutes(duration)]
SummaryRows ==
  { SummaryRow(1, "Arbete", DstDay - 1, 500, <<"1", "h", " ", "3", "0", "m">>),
    SummaryRow(2, "Arbete", DstDay, 125, <<"2", "h">>),
    SummaryRow(3, "Privat", DstDay, 80, <<"4", "5", "m">>),
    SummaryRow(4, "Arbete", DstDay + 1, 10, <<"0", "h", " ", "5", "m">>),
    SummaryRow(5, "Privat", DstDay - 1, 0, <<>>),
    SummaryRow(6, "Arbete", DstDay, 1000, <<"1", "0", "h", " ", "0", "m">>) }
SummaryQueries ==
  [category : {"", "Arbete"}, dateFrom : {NoDate, DstDay}, dateTo : {NoDate, DstDay}]

\* the summary route, lines 50-114: the WHERE clause, the aggregate
\* statement, the response (an error gives the 500 response)
Summary ==
  /\ io.op = "summary" /\ io.ret = <<>> /\ Ready
  /\ LET hits == { r \in io.stored : Where(r, io.args, io.tz) }
         totalMinutes == SumOf(hits, "minutes")
     IN \/ io' = [io EXCEPT !.ret = [response |-> "result",
                                      totalTrips |-> Cardinality(hits),
                                      totalDistance |-> SumOf(hits, "distance"),
                                      totalMinutes |-> totalMinutes,
                                      totalTime |-> [h |-> totalMinutes \div 60,
                                                     m |-> totalMinutes % 60]]]
        \/ io' = [io EXCEPT !.ret = [response |-> TripsResponse(StatementErrorClass),
                                      totalTrips |-> 0, totalDistance |-> 0,
                                      totalMinutes |-> 0, totalTime |-> [h |-> 0, m |-> 0]]]
  /\ UNCHANGED <<files, db, txn, work, clock, gd, task, stolen, backedUp, prevImport, calls>>

SummaryInit ==
  /\ files = [p \in Paths |-> IF p = DbPath THEN SchemaDb ELSE NoFile]
  /\ db = "open" /\ txn = FALSE /\ work = NoWork /\ clock = 1
  /\ gd = IdleGd
  /\ task = [t \in Tasks |-> IdleTask]
  /\ stolen = {} /\ backedUp = {} /\ prevImport = NoImport /\ calls = NoCalls
  /\ \E stored \in SUBSET SummaryRows, q \in SummaryQueries, tz \in Zones :
       io = [op |-> "summary", args |-> q, tz |-> tz, stored |-> stored, ret |-> <<>>]

SummaryNext == Summary

SummarySpec == SummaryInit /\ [][SummaryNext]_vars

(* ------------------------------ claims --------------------------------- *)
Last(q) == q[Len(q)]
KeysOf(trips) == { <<r.id, NaturalKey(r)>> : r \in trips }
Quiet == \A t \in Tasks : task[t].pc \in {"idle", "done"}
\* the call of task t for its k-th record: the rows it inserted that are committed
OwnRows(t, k) == { r \in Committed.trips : r.by = <<t, task[t].n, k>> }
\* an insertTrip call of the sequential slot has just returned
Returned ==
  task[1].kind = "import" /\ task[1].pc \in {"begin", "done"} /\ Len(task[1].out) >= 1
ReturnedRecord == task[1].recs[Len(task[1].out)]

\* C1: the trips table, as committed and as the connection sees it, never
\* holds two rows with the same (startDate, odometerStart, odometerEnd),
\* whatever insertTrip, updateTrip and setSetting calls ran or are running.
C1_NaturalKeyUnique ==
  \A trips \in {Committed.trips, View.trips} :
    \A a, b \in trips : NaturalKey(a) = NaturalKey(b) => a = b
\* a second insert of a stored key was refused while two trips are stored and
\* an updateTrip and a setSetting have run
C1_Witness ==
  /\ Cardinality(Committed.trips) = 2
  /\ \E t \in Tasks : \E k \in 1..Len(task[t].out) :
       /\ task[t].out[k].ret = "duplicate" /\ ~task[t].out[k].fault
       /\ ~NotNullViolated(task[t].recs[k])

\* C2: an import of the upload that the previous import read, both without a
\* storage fault, reports imported = 0 and leaves the stored trips (their ids
\* and natural keys, so their count) as they were after the previous import.
C2_ReimportAddsNothing ==
  (/\ task[1].kind = "import" /\ task[1].pc = "done"
   /\ prevImport.file = task[1].file /\ prevImport.clean /\ Clean(task[1]))
  => /\ task[1].imported = 0
     /\ KeysOf(Committed.trips) = KeysOf(prevImport.trips)
     /\ Cardinality(Committed.trips) = Cardinality(prevImport.trips)
\* the second import of an upload whose first import stored a trip
C2_Witness ==
  /\ task[1].kind = "import" /\ task[1].pc = "done"
  /\ prevImport.file = task[1].file /\ prevImport.clean /\ Clean(task[1])
  /\ prevImport.imported >= 1 /\ task[1].duplicates >= 1

\* C3: a sequential insertTrip that meets no storage fault returns the new
\* id and adds exactly that row when no stored trip has the key, and returns
\* false with the table unchanged when one has.
C3_InsertOrDuplicate ==
  (Returned /\ ~Last(task[1].out).fault) =>
    IF ~UniqueViolated(task[1].pre, ReturnedRecord)
      THEN /\ Last(task[1].out).ret = "id"
           /\ Cardinality(Committed.trips) = Cardinality(task[1].pre) + 1
           /\ \E r \in Committed.trips :
                /\ Committed.trips = task[1].pre \cup {r}
                /\ r.id = Last(task[1].out).id /\ r.id \notin Ids(task[1].pre)
                /\ NaturalKey(r) = NaturalKey(ReturnedRecord)
      ELSE /\ Last(task[1].out).ret = "duplicate"
           /\ Committed.trips = task[1].pre

\* C4: every insertTrip call that has returned, under any interleaving,
\* returned a row identifier if and only if its own row is committed, and no
\* ROLLBACK of a call removed the row of another call.
C4_AtomicCalls ==
  /\ stolen = {}
  /\ \A t \in Tasks : \A k \in 1..Len(task[t].out) :
       (task[t].out[k].ret = "id") <=> (OwnRows(t, k) # {})

\* C5: once every request has finished, a setSetting that returned true has
\* its value in the store (no other request wrote that key), and an
\* updateTrip that returned true has its fields in the row of that id.
C5_WritesSurvive ==
  Quiet =>
    \A t \in Tasks :
      /\ (/\ task[t].kind = "set" /\ task[t].pc = "done" /\ task[t].ret = "true"
          /\ \A u \in Tasks \ {t} : ~(task[u].kind = "set" /\ task[u].key = task[t].key))
         => Committed.settings[task[t].key] = task[t].value
      /\ (/\ task[t].kind = "update" /\ task[t].pc = "done" /\ task[t].ret = "true"
          /\ \A u \in Tasks \ {t} : task[u].kind # "update")
         => \E r \in Committed.trips : r.id = task[t].id /\ Updated(r, task[t].upd) = r

\* C6: getDatabase that found a file whose integrity check failed, and whose
\* recovery met no failure, returns with (a) the file it found under the
\* backup path of the recovery, unchanged, (b) a file with both tables and
\* no trip at the original path, (c) the handle open.
C6_RecoveredStore ==
  (gd.pc = "ready" /\ gd.badIntegrity /\ gd.failed = 0) =>
    /\ gd.recoveries = 1
    /\ files[BackupPath(gd.now)] = gd.orig
    /\ files[DbPath].exists /\ files[DbPath].ok
    /\ files[DbPath].tables = Tables /\ files[DbPath].trips = {}
    /\ db = "open"
\* a damaged file that held a trip was recovered
C6_Witness ==
  /\ gd.pc = "ready" /\ gd.badIntegrity /\ gd.failed = 0
  /\ gd.orig.trips # {} /\ ~gd.orig.ok

\* C7: every file that a recovery renamed to a backup path is still there
\* with the bytes it had.
C7_BackupsKept == \A b \in backedUp : files[b.path] = b.bytes

\* C8: one initialization runs recoverDatabase at most once, and after a
\* failed recovery getDatabase does not return a handle.
C8_SingleRecovery ==
  /\ gd.recoveries <= 1
  /\ gd.failed >= 1 => gd.pc # "ready"

\* C9: an insertTrip whose INSERT failed with a corruption signature
\* (code SQLITE_CORRUPT or SQLITE_NOTADB, or a message holding "database disk
\* image is malformed" or "file is not a database") raises
\* DatabaseCorruptionError: neither a generic error nor false.
HasCorruptionSignature(e) ==
  \/ e.code \in {"SQLITE_CORRUPT", "SQLITE_NOTADB"}
  \/ "database disk image is malformed" \in e.msg
  \/ "file is not a database" \in e.msg
C9_CorruptionRaised ==
  [][\A t \in Tasks :
       (/\ task[t].pc = "rollback" /\ task[t].fault
        /\ HasCorruptionSignature(task[t].err)
        /\ task'[t] # task[t])
       => Last(task'[t].out).ret = "corruption"]_vars
\* a call raised the corruption error for a failed INSERT
C9_Witness ==
  \E t \in Tasks : \E k \in 1..Len(task[t].out) :
    task[t].out[k].fault /\ task[t].out[k].ret = "corruption"

\* C10: an import in which insertTrip raised the corruption error answers
\* with the isCorruption response.
C10_CorruptionSurfaced ==
  \A t \in Tasks :
    (/\ task[t].kind = "import" /\ task[t].pc = "done"
     /\ \E k \in 1..Len(task[t].out) : task[t].out[k].ret = "corruption")
    => task[t].ret = "isCorruption"

(* parseCSVData *)
Parsed == io.op = "parseCSVData" /\ io.ret # <<>>
\* one row with enough fields was parsed
ParsedOne == Parsed /\ Len(io.args.rows) = 1 /\ Len(io.args.rows[1]) >= MinFields
TheRow == io.args.rows[1]
OdometerOf(text) == parseInt(cleanText(OrZero(text)))
DistanceOf(text) == parseFloat(ReplaceFirst(cleanText(OrZero(text)), ",", "."))

\* C13: a row with at least 14 fields, in either layout, gives a record if
\* and only if its cleaned category and startDate are not empty, not
\* (odometerStart > odometerEnd and distance > 0), and not (both odometers
\* and the distance are 0); odometers 100 and 50 are rejected with distance
\* 10,0 and accepted with distance 0.
C13_AcceptedRows ==
  ParsedOne =>
    /\ (Len(io.ret.results) = 1) <=>
         /\ cleanText(TheRow[1]) # <<>> /\ cleanText(TheRow[2]) # <<>>
         /\ ~(Greater(OdometerOf(TheRow[3]), OdometerOf(TheRow[6])) /\ Greater(DistanceOf(TheRow[9]), Num(0)))
         /\ ~(OdometerOf(TheRow[3]) = Num(0) /\ OdometerOf(TheRow[6]) = Num(0) /\ DistanceOf(TheRow[9]) = Num(0))
    /\ Len(io.ret.results) <= 1
    /\ (/\ cleanText(TheRow[1]) # <<>> /\ cleanText(TheRow[2]) # <<>>
        /\ TheRow[3] = <<"1", "0", "0">> /\ TheRow[6] = <<"5", "0">>)
       => /\ TheRow[9] = <<"1", "0", ",", "0">> => io.ret.results = <<>>
          /\ TheRow[9] = <<"0">> => Len(io.ret.results) = 1
\* the row with odometers 100 and 50 and distance 0 was accepted in the
\* legacy layout
C13_Witness ==
  /\ ParsedOne /\ io.args.layout = "single"
  /\ TheRow[3] = <<"1", "0", "0">> /\ TheRow[6] = <<"5", "0">> /\ TheRow[9] = <<"0">>
  /\ Len(io.ret.results) = 1

\* C14: parseCSVData accounts for every non-blank row: the records returned
\* plus the tally of skipped rows is the number of rows, rows with fewer
\* than 14 fields included.
C14_EveryRowCounted ==
  Parsed => Len(io.ret.results) + io.ret.skippedLines = Len(io.args.rows)

\* C15: the category of the record of an accepted row is "Privat" when the
\* remap flag is set and the cleaned category field is "Okategoriserat", and
\* the cleaned category field in every other case.
C15_CategoryRemap ==
  (ParsedOne /\ Len(io.ret.results) = 1) =>
    io.ret.results[1].category =
      IF io.args.flag /\ cleanText(TheRow[1]) = <<"Okategoriserat">>
        THEN <<"Privat">> ELSE cleanText(TheRow[1])
\* a category field " Okategoriserat " was remapped
C15_Witness ==
  /\ ParsedOne /\ Len(io.ret.results) = 1 /\ io.args.flag
  /\ TheRow[1] = <<" ", "Okategoriserat", " ">>
  /\ io.ret.results[1].category = <<"Privat">>

\* C16: every record the parser returns has odometerStart and odometerEnd
\* that are non-negative integers and a distance that is a non-negative
\* number: none is negative, none is NaN.
C16_NonNegativeNumbers ==
  Parsed =>
    \A k \in DOMAIN io.ret.results :
      \A x \in {io.ret.results[k].odometerStart, io.ret.results[k].odometerEnd,
                io.ret.results[k].distance} : ~x.nan /\ x.v >= 0

(* getTrips *)
Answered == io.op = "getTrips" /\ io.ret # <<>> /\ io.ret.thrown = NoErr
\* the filter as asked for: the category, from dateFrom on, up to and with the
\* whole day dateTo
Matches(trip, q) ==
  /\ q.category # "" => trip.category = q.category
  /\ q.dateFrom # NoDate => trip.startDate.day >= q.dateFrom
  /\ q.dateTo # NoDate => trip.startDate.day <= q.dateTo

\* C17: getTrips returns a total equal to the number of stored trips that
\* satisfy the filter, whatever the page and page size, and a page of at most
\* pageSize trips that satisfy the filter, ordered by startDate in the
\* direction asked for.
C17_PageAndTotal ==
  Answered =>
    /\ io.ret.total = Cardinality({ r \in Committed.trips : Matches(r, io.args) })
    /\ Len(io.ret.trips) <= io.args.limit
    /\ \A k \in DOMAIN io.ret.trips :
         io.ret.trips[k] \in Committed.trips /\ Matches(io.ret.trips[k], io.args)
    /\ \A i, j \in DOMAIN io.ret.trips : i < j =>
         IF io.args.sortOrder = "asc"
           THEN ~DateLess(io.ret.trips[j].startDate, io.ret.trips[i].startDate)
           ELSE ~DateLess(io.ret.trips[i].startDate, io.ret.trips[j].startDate)

\* C18: with a dateTo filter D and no other filter, getTrips counts every
\* trip whose startDate is on day D or before, at any time of the day, and
\* no trip of a later day.
C18_DateToInclusive ==
  (Answered /\ io.args.dateTo # NoDate /\ io.args.category = "" /\ io.args.dateFrom = NoDate)
  => io.ret.total = Cardinality({ r \in Committed.trips : r.startDate.day <= io.args.dateTo })

(* the query surface *)
\* C12: a getSetting, setSetting or updateTrip whose statement failed with a
\* corruption signature gives the caller a corruption signal: a result other
\* than the false or null that an ordinary outcome gives.
C12_TypedCorruption ==
  \A t \in Tasks :
    (/\ task[t].kind \in {"get", "set", "update"} /\ task[t].pc = "done"
     /\ task[t].fault /\ HasCorruptionSignature(task[t].err))
    => task[t].ret \notin {"false", "null", "true"}

\* C19: an updateTrip that meets no storage fault returns false and changes
\* nothing when no field is supplied or no trip has the id; otherwise it
\* returns true, the trip of that id takes the supplied category and notes
\* and keeps every other field, and every other trip and every setting stays
\* as it was.
UpdateReturns ==
  /\ task[1].pc \in {"idle", "update"}
  /\ task'[1].kind = "update" /\ task'[1].pc = "done" /\ ~task'[1].fault
C19_UpdateFrame ==
  [][UpdateReturns =>
       LET id == task'[1].id
           upd == task'[1].upd
           before == Committed.trips
           after == files'[DbPath].trips
       IN /\ files'[DbPath].settings = Committed.settings
          /\ IF upd = NoUpdate \/ id \notin Ids(before)
               THEN task'[1].ret = "false" /\ after = before
               ELSE /\ task'[1].ret = "true"
                    /\ Cardinality(after) = Cardinality(before)
                    /\ \A r \in before : r.id # id => r \in after
                    /\ \E r \in before, u \in after :
                         /\ r.id = id /\ u.id = id
                         /\ u.category = IF upd.category = Undefined THEN r.category
                                         ELSE upd.category
                         /\ u.notes = IF upd.notes = Undefined THEN r.notes ELSE upd.notes
                         /\ NaturalKey(u) = NaturalKey(r)
                         /\ u.distance = r.distance /\ u.by = r.by]_vars
\* an updateTrip returned true for the category of one of two stored trips
C19_Witness ==
  /\ task[1].kind = "update" /\ task[1].pc = "done" /\ task[1].ret = "true"
  /\ task[1].upd.category = "Arbete" /\ Cardinality(Committed.trips) = 2
  /\ \E r \in Committed.trips :
       r.id = task[1].id /\ r.category = "Arbete" /\ r.startDate = "2024-01-01"

\* C20: a setSetting(k, v) that returns true leaves v stored under k; a
\* getSetting(k) that meets no storage fault returns the value stored under
\* k; no step removes a key.
C20_SetThenGet ==
  [][/\ (task[1].pc = "set" /\ task'[1].pc = "done" /\ task'[1].ret = "true")
        => files'[DbPath].settings[task[1].key] = task[1].value
     /\ (/\ task[1].pc = "get" /\ task'[1].pc = "done" /\ ~task'[1].fault
         /\ Committed.settings[task[1].key] # NoValue)
        => task'[1].ret = Committed.settings[task[1].key]
     /\ \A k \in Keys : Committed.settings[k] # NoValue
                          => files'[DbPath].settings[k] # NoValue]_vars

\* C11: when insertTrip has raised the corruption error, the next store
\* operation runs on a rebuilt store: the file the failed call worked on has
\* been renamed to a backup and a fresh schema-valid file is at the path.
NextOperationRuns ==
  /\ task[1].pc = "begin" /\ task'[1].pc # "begin"
  /\ Len(task[1].out) > 0 /\ task[1].out[Len(task[1].out)].ret = "corruption"
C11_RecoveryBeforeNextOperation ==
  [][NextOperationRuns =>
       /\ files[DbPath] = SchemaDb
       /\ \E b \in backedUp : b.bytes.trips = task[1].pre /\ ~b.bytes.ok]_vars

(* the import loop *)
\* the committed rows that the import of task t inserted
ImportRows(t) == { r \in Committed.trips : r.by[1] = t /\ r.by[2] = task[t].n }
\* C21: once every request has finished, an import of N records has made N
\* insertTrip calls, its counts satisfy imported + duplicates + errors = N,
\* and imported is the number of rows the import added to the store.
C21_IndependentInserts ==
  Quiet =>
    \A t \in Tasks :
      (task[t].kind = "import" /\ task[t].pc = "done") =>
        /\ Len(task[t].out) = Len(task[t].recs)
        /\ task[t].imported + task[t].duplicates + task[t].errors = Len(task[t].recs)
        /\ task[t].imported = Cardinality(ImportRows(t))

\* C28: a sequential insertTrip returns false only when a stored trip has
\* the (startDate, odometerStart, odometerEnd) of its argument.
C28_DuplicateMeansStoredKey ==
  (Returned /\ Last(task[1].out).ret = "duplicate")
    => UniqueViolated(task[1].pre, ReturnedRecord)

(* startup *)
\* the four cases of the startup classification
Classified(file, existed) ==
  IF ~file.ok THEN "corrupt"
  ELSE IF file.tables # Tables THEN (IF existed THEN "corrupt" ELSE "healthy-fresh")
  ELSE "healthy-existing"
ValidationOf(g) ==
  IF ~g.healthy THEN "corrupt" ELSE IF g.fresh THEN "healthy-fresh" ELSE "healthy-existing"
Validates == gd.pc = "validate" /\ gd'.pc # "validate" /\ gd'.probe = "reported"
Returns == gd.pc # "ready" /\ gd'.pc = "ready"
\* a validation whose statements all report classifies the opened file by
\* the four cases
ClassifiedByCases ==
  [][Validates => ValidationOf(gd') = Classified(files[DbPath], gd.existed)]_vars
\* C23: a validation whose statements all report classifies the opened file
\* by the four cases, and a getDatabase that classified the file healthy
\* returns with both tables in the file and with no file renamed.
C23_StartupClassification ==
  [][/\ Validates => ValidationOf(gd') = Classified(files[DbPath], gd.existed)
     /\ (Returns /\ gd'.probe = "reported" /\ gd'.healthy)
          => (files'[DbPath].tables = Tables /\ gd'.recoveries = 0)]_vars

\* C29: getDatabase renames the database file to a backup path only in an
\* initialization whose validation classified the file as corrupt.
C29_RenameOnlyWhenCorrupt ==
  [][backedUp' # backedUp => gd.pc \in {"close", "catch"} /\ ~gd.healthy]_vars

\* C22: under any interleaving of getDatabase calls the initialization is
\* begun at most once, one handle is opened, and every caller that has
\* returned holds the same handle.
C22_OpenedOnce ==
  /\ calls.inits <= 1 /\ calls.opened <= 1
  /\ \A a, b \in Callers :
       (calls.of[a].got # 0 /\ calls.of[b].got # 0) => calls.of[a].got = calls.of[b].got

(* parseCSVData on a text *)
TextParsed == io.op = "parseCSVData on a text" /\ io.ret # <<>>
TheText == io.args.text
LineCount(content) == Cardinality({ i \in DOMAIN content : content[i] = "LF" }) + 1
\* the records of a list of rows, decoded one by one
RecordsOf(rows) == parseCSVData(rows, io.args.flag).results
\* the row starts with a keyword and holds no keyword followed by ";" after it
KeywordOnlyAtStart(row) ==
  /\ StartsWithKeyword(row)
  /\ \A i \in 2..Len(RowText(row)) : ~KeywordAt(RowText(row), i)
NoKeyword(text) == \A i \in DOMAIN text : ~KeywordAt(text, i)

\* C24: parseCSVData takes the line layout exactly when the text has more
\* than two lines; it then gives the records of the lines after the first,
\* and no record for the first line even when that line is a row of data;
\* with two lines or fewer the whole text, its first line included, is read
\* as the legacy single-line layout.
C24_LayoutDetection ==
  TextParsed =>
    /\ (io.ret.layout = "lines") <=> (LineCount(io.args.content) > 2)
    /\ io.ret.layout = "lines" => io.ret.results = RecordsOf(TheText.rows)
    /\ (io.ret.layout = "single" /\ \A k \in DOMAIN TheText.rows : KeywordOnlyAtStart(TheText.rows[k]))
         => io.ret.results =
              RecordsOf((IF NoKeyword(TheText.preamble) THEN <<>> ELSE <<SampleRow>>)
                        \o TheText.rows)
\* two rows after a first line that is a row of data: two records
C24_Witness ==
  /\ TextParsed /\ TheText.form = "lines" /\ TheText.preamble = RowText(SampleRow)
  /\ Len(TheText.rows) = 2 /\ io.ret.layout = "lines" /\ Len(io.ret.results) = 2

\* the rows are valid rows of 14 fields
ValidRows(rows) ==
  \A k \in DOMAIN rows :
    Len(rows[k]) = MinFields /\ RowVerdict(DecodeRow(rows[k], io.args.flag)) = "accept"
\* C25: a single-line text of a preamble without keyword and N valid
\* 14-field rows, each with a keyword at its start only, gives the N records
\* of the rows in their order; the sample gives one record with category
\* Privat and distance 50.0; a text without keyword gives no record.
C25_LegacyRows ==
  (TextParsed /\ TheText.form = "single" /\ NoKeyword(TheText.preamble)) =>
    /\ (ValidRows(TheText.rows) /\ \A k \in DOMAIN TheText.rows : KeywordOnlyAtStart(TheText.rows[k]))
         => /\ Len(io.ret.results) = Len(TheText.rows)
            /\ \A k \in DOMAIN TheText.rows :
                 io.ret.results[k] = DecodeRow(TheText.rows[k], io.args.flag)
    /\ (TheText.preamble = <<"Header", " ", "stuff", " ">> /\ TheText.rows = <<SampleRow>>)
         => /\ Len(io.ret.results) = 1
            /\ io.ret.results[1].category = <<"Privat">>
            /\ io.ret.results[1].distance = Num(500)
    /\ TheText.rows = <<>> => io.ret.results = <<>>
\* two different rows after the preamble of the sample gave two records
C25_Witness ==
  /\ TextParsed /\ TheText.form = "single"
  /\ TheText.preamble = <<"Header", " ", "stuff", " ">>
  /\ Len(TheText.rows) = 2 /\ TheText.rows[1] # TheText.rows[2] /\ ValidRows(TheText.rows)
  /\ Len(io.ret.results) = 2 /\ io.ret.results[1] # io.ret.results[2]

\* C30: rows that each have a keyword at their start only give the same
\* records one per line after a header line (without keyword) as on a single
\* line after any preamble without keyword, for either value of the flag.
C30_LayoutsAgree ==
  (/\ TextParsed /\ TheText.form = "lines" /\ NoKeyword(TheText.preamble)
   /\ \A k \in DOMAIN TheText.rows : KeywordOnlyAtStart(TheText.rows[k]))
  => \A preamble \in { p \in Preambles : NoKeyword(p) } :
       io.ret.results =
         parseCSVText(SingleLineText(preamble, TheText.rows), io.args.flag).results
\* two rows, one of them remapped, were read in the line layout
C30_Witness ==
  /\ TextParsed /\ TheText.form = "lines" /\ io.ret.layout = "lines"
  /\ NoKeyword(TheText.preamble) /\ TheText.preamble # <<>>
  /\ TheText.break = <<"CR", "LF">> /\ io.args.flag
  /\ Len(TheText.rows) = 2 /\ TheText.rows[2][1] = <<"Okategoriserat">>
  /\ Len(io.ret.results) = 2 /\ io.ret.results[2].category = <<"Privat">>

(* decoding the upload *)
Decoded == io.op = "decode" /\ io.ret # <<>>
TheBytes == io.args.bytes
\* C26: the text of an upload is, by first match: UTF-16LE of the bytes
\* after FF FE; UTF-16BE of the bytes after FE FF; UTF-8 of the bytes after
\* EF BB BF; strict UTF-8 of all bytes when they are valid UTF-8; ISO-8859-1
\* of all bytes otherwise.
C26_EncodingDetector ==
  Decoded =>
    io.ret.text =
      IF StartsWith(TheBytes, <<255, 254>>) THEN Utf16(SubSeq(TheBytes, 3, Len(TheBytes)), TRUE)
      ELSE IF StartsWith(TheBytes, <<254, 255>>)
        THEN Utf16(SubSeq(TheBytes, 3, Len(TheBytes)), FALSE)
      ELSE IF StartsWith(TheBytes, <<239, 187, 191>>)
        THEN Utf8(SubSeq(TheBytes, 4, Len(TheBytes)), FALSE).text
      ELSE IF Utf8(TheBytes, TRUE).ok THEN Utf8(TheBytes, TRUE).text
      ELSE Latin1(TheBytes)

(* the summary *)
Summarized == io.op = "summary" /\ io.ret # <<>> /\ io.ret.response = "result"
\* the digits that stand right before position i of a text, as a number
NumberBefore(d, i) ==
  LET from == CHOOSE j \in 1..i : /\ \A x \in j..(i - 1) : IsDigit(d[x])
                                  /\ (j > 1 => ~IsDigit(d[j - 1]))
  IN DigitsValue(SubSeq(d, from, i - 1), 0)
HourComponent(d) == IF instr(d, "h") = 0 THEN 0 ELSE NumberBefore(d, instr(d, "h"))
MinuteComponent(d) == IF instr(d, "m") = 0 THEN 0 ELSE NumberBefore(d, instr(d, "m"))
RECURSIVE DurationSum(_)
DurationSum(rows) ==
  IF rows = {} THEN 0
  ELSE LET r == CHOOSE x \in rows : TRUE
       IN 60 * HourComponent(r.duration) + MinuteComponent(r.duration)
          + DurationSum(rows \ {r})
\* C27: the summary gives the count of the trips that satisfy the filter,
\* the sum of their distances, and as total minutes the sum over them of 60
\* times the hour component plus the minute component of the duration.
C27_Summary ==
  Summarized =>
    LET hits == { r \in io.stored : Matches(r, io.args) }
    IN /\ io.ret.totalTrips = Cardinality(hits)
       /\ io.ret.totalDistance = SumOf(hits, "distance")
       /\ io.ret.totalMinutes = DurationSum(hits)

====
